---- MODULE Spec2Model ----
(***************************************************************************)
(* A model of src/src/App.js: the journaling client.  The state is the     *)
(* component's useState cells, the requests and file reads in flight, and  *)
(* the pending assistant timers.  Every handler is one action per          *)
(* synchronous run of its code: from the click to its first await, and     *)
(* from the resumption of an await to the next one.  A handler reads the   *)
(* state cells it captured when the click happened (its closure), and      *)
(* writes the live cells.                                                  *)
(***************************************************************************)
EXTENDS Integers, Sequences, FiniteSets, TLC

VARIABLES
    ENDPOINTS,          \* which endpoint URLs the build configured
    userId, text, file, uploadedFileUrl, uploadedBlobName,
    entries, loadingEntries, editingId, status, error,
    inflight,           \* handler runs suspended at an await
    nextSeq,            \* handler runs started so far
    budget,             \* handler runs one behaviour of the model may start
    listSeq,            \* list requests issued so far
    readyUpload,        \* history: the fileUrl of the latest completed upload, until a
                        \* create that carried it succeeds; "" otherwise
    relisted,           \* history: a write has reached its re-list
    newestList,         \* history: the latest-issued list request among those that succeeded
    arrivedList,        \* history: the list request whose success arrived last, and its body
    lastStep,           \* history: the step just taken
    mood, moodNotes, moodHistory, clock, edits,
    assistantInput, assistantMessages, timers, sends,
    res, outcome        \* the adapter on its own: a response and what the call made of it

appVars == <<ENDPOINTS, userId, text, file, uploadedFileUrl, uploadedBlobName,
             entries, loadingEntries, editingId, status, error,
             inflight, nextSeq, budget, listSeq, readyUpload, relisted, newestList,
             arrivedList, lastStep>>
moodVars == <<mood, moodNotes, moodHistory, clock, edits>>
assistantVars == <<assistantInput, assistantMessages, timers, sends>>
adapterVars == <<res, outcome>>
vars == <<appVars, moodVars, assistantVars, adapterVars>>

----------------------------------------------------------------------------
(* Bounds of the model *)

\* handler runs (clicks on Upload, Create, Load, Save, Delete) in one behaviour
MaxOps == 2
\* handler runs (clicks on Upload, Create) in one behaviour of the create form alone
MaxFormOps == 4
\* handler runs suspended at an await at one time
MaxPending == 2
\* Save-mood clicks in one behaviour
MaxMoods == 16
\* moves of the mood slider and edits of the notes field in one behaviour
MaxEdits == 2
\* Send clicks in one behaviour
MaxSends == 3

\* the cap of the mood log, `.slice(0, 14)`
MoodCap == 14

----------------------------------------------------------------------------
(* JavaScript values, as far as the adapter and the list handler look at   *)
(* them: null, undefined, a string, an array of entries, an object.        *)

Null == [t |-> "null"]
Undefined == [t |-> "undefined"]
Str(s) == [t |-> "str", s |-> s]
Arr(items) == [t |-> "arr", items |-> items]
Obj(fields) == [t |-> "obj", fields |-> fields]

\* o.k as JavaScript evaluates it on a non-null value
Get(v, k) ==
    IF v.t = "obj" /\ k \in DOMAIN v.fields THEN v.fields[k] ELSE Undefined

Truthy(v) ==
    CASE v.t = "null" -> FALSE
      [] v.t = "undefined" -> FALSE
      [] v.t = "str" -> v.s # ""
      [] OTHER -> TRUE

\* the response bodies the model's services send
BodyEmpty == ""
BodyHtml == "<html>Bad Gateway</html>"
BodyCut == "{\"entries\":["
BodyNull == "null"
BodyObj == "{}"
BodyMsg == "{\"message\":\"boom\"}"
BodyMsgEmpty == "{\"message\":\"\"}"
BodyUpload1 == "{\"blobName\":\"b1\",\"fileUrl\":\"url1\"}"
BodyUpload2 == "{\"blobName\":\"b2\",\"fileUrl\":\"url2\"}"
BodyUploadNoUrl == "{\"blobName\":\"b1\"}"
BodyArr0 == "[]"
BodyArr1 == "[{\"id\":\"e1\"}]"
BodyArr2 == "[{\"id\":\"e2\"},{\"id\":\"e1\"}]"
BodyArrNoId == "[{\"text\":\"x\"}]"
BodyEntries1 == "{\"entries\":[{\"id\":\"e1\"}]}"
BodyValue1 == "{\"value\":[{\"id\":\"e1\"}]}"

Bodies == {BodyEmpty, BodyHtml, BodyCut, BodyNull, BodyObj, BodyMsg, BodyMsgEmpty,
           BodyUpload1, BodyUpload2, BodyUploadNoUrl, BodyArr0, BodyArr1, BodyArr2,
           BodyArrNoId, BodyEntries1, BodyValue1}

\* the bodies JSON.parse rejects with a SyntaxError
Unparseable == {BodyEmpty, BodyHtml, BodyCut}

\* JSON.parse on the bodies it accepts; an entry is kept as its id
\* ("undefined" for an entry that has none)
JSONparse(t) ==
    CASE t = BodyNull -> Null
      [] t = BodyObj -> Obj(<<>>)
      [] t = BodyMsg -> Obj([message |-> Str("boom")])
      [] t = BodyMsgEmpty -> Obj([message |-> Str("")])
      [] t = BodyUpload1 -> Obj([blobName |-> Str("b1"), fileUrl |-> Str("url1")])
      [] t = BodyUpload2 -> Obj([blobName |-> Str("b2"), fileUrl |-> Str("url2")])
      [] t = BodyUploadNoUrl -> Obj([blobName |-> Str("b1")])
      [] t = BodyArr0 -> Arr(<<>>)
      [] t = BodyArr1 -> Arr(<<"e1">>)
      [] t = BodyArr2 -> Arr(<<"e2", "e1">>)
      [] t = BodyArrNoId -> Arr(<<"undefined">>)
      [] t = BodyEntries1 -> Obj([entries |-> Arr(<<"e1">>)])
      [] t = BodyValue1 -> Obj([value |-> Arr(<<"e1">>)])

\* what fetch() settles to: a rejection, or a response with a status and a body
Rejected == [rejected |-> TRUE, status |-> 0, text |-> ""]
Response(st, t) == [rejected |-> FALSE, status |-> st, text |-> t]
Statuses == {200, 201, 400, 404, 500}
ResOk(r) == r.status \in 200..299

Returned(v) == [thrown |-> FALSE, data |-> v, message |-> ""]
Thrown(m) == [thrown |-> TRUE, data |-> Undefined, message |-> m]

\* the try/catch around JSON.parse
ParseBody(t) ==
    IF t = "" THEN Null
    ELSE IF t \in Unparseable THEN Str(t)
    ELSE JSONparse(t)

\* the message of the Error thrown for a response that is not ok
FailureMessage(r, data) ==
    LET m == IF Truthy(data) THEN Get(data, "message") ELSE data
    IN  IF Truthy(m) THEN m.s
        ELSE IF r.text # "" THEN r.text
        ELSE "Request failed: " \o ToString(r.status)

\* apiFetchAbsolute with JSON.parse outside the try block
apiFetchAbsolute_parseUnguarded(r) ==
    IF r.rejected THEN Thrown("Failed to fetch")
    ELSE IF r.text \in Unparseable \ {""} THEN Thrown("Unexpected token")
    ELSE IF ~ResOk(r) THEN Thrown(FailureMessage(r, ParseBody(r.text)))
    ELSE Returned(ParseBody(r.text))

\* apiFetchAbsolute that also throws for a body with a message field
apiFetchAbsolute_failsOnMessage(r) ==
    IF r.rejected THEN Thrown("Failed to fetch")
    ELSE LET data == ParseBody(r.text)
         IN  IF ~ResOk(r) \/ (Truthy(data) /\ Truthy(Get(data, "message")))
             THEN Thrown(FailureMessage(r, data))
             ELSE Returned(data)

apiFetchAbsolute(r) ==
    IF r.rejected THEN Thrown("Failed to fetch")
    ELSE LET data == ParseBody(r.text)
         IN  IF ~ResOk(r) THEN Thrown(FailureMessage(r, data))
             ELSE Returned(data)

----------------------------------------------------------------------------
(* The state after construction (the useState initial values) *)

AllSet == [upload |-> TRUE, create |-> TRUE, get |-> TRUE, update |-> TRUE, del |-> TRUE]

\* the last step of a handler: the operation, how the step ended ("start":
\* suspended at an await, "ok": ran to its end, "fail": in the catch block), the
\* class of the failure, whether this operation had started I/O before the step
\* ended, the write whose success the step began with, and the user identifier
\* in the run's closure
Step(op, kind, class, io, after, uid) ==
    [op |-> op, kind |-> kind, class |-> class, io |-> io, after |-> after, userId |-> uid]
NoStep == Step("none", "none", "none", FALSE, "none", "")

NoList == [k |-> 0, list |-> <<>>]

AppInit(b) ==
    /\ userId = "u12345"
    /\ text = ""
    /\ file = "null"
    /\ uploadedFileUrl = ""
    /\ uploadedBlobName = ""
    /\ entries = <<>>
    /\ loadingEntries = FALSE
    /\ editingId = "null"
    /\ status = ""
    /\ error = ""
    /\ inflight = {}
    /\ nextSeq = 0
    /\ budget = b
    /\ listSeq = 0
    /\ readyUpload = ""
    /\ relisted = FALSE
    /\ newestList = NoList
    /\ arrivedList = [k |-> 0, body |-> ""]
    /\ lastStep = NoStep

MoodInit ==
    /\ mood = 3
    /\ moodNotes = ""
    /\ moodHistory = <<>>
    /\ clock = 0
    /\ edits = 0

Greeting == [role |-> "assistant", text |-> "Hi", n |-> 0]

AssistantInit ==
    /\ assistantInput = ""
    /\ assistantMessages = <<Greeting>>
    /\ timers = <<>>
    /\ sends = 0

NotCalled == [called |-> FALSE]
AdapterIdle ==
    /\ res = Rejected
    /\ outcome = NotCalled

----------------------------------------------------------------------------
(* The Remote Call Adapter on its own *)

Responses == {Rejected} \cup {Response(st, t) : st \in Statuses, t \in Bodies}

InitAdapter ==
    /\ ENDPOINTS = AllSet
    /\ AppInit(MaxOps) /\ MoodInit /\ AssistantInit
    /\ res \in Responses
    /\ outcome = NotCalled

\* one call of apiFetchAbsolute, from fetch() settling to the return or the throw
Call ==
    /\ ~outcome.called
    /\ outcome' = [called |-> TRUE, r |-> apiFetchAbsolute(res)]
    /\ UNCHANGED <<res, appVars, moodVars, assistantVars>>

NextAdapter == Call

SpecAdapter == InitAdapter /\ [][NextAdapter]_vars

----------------------------------------------------------------------------
(* The Mood Log *)

\* String.prototype.trim on the texts the model types
Trim(s) ==
    CASE s = " " -> ""
      [] s = " ok " -> "ok"
      [] s = " hi " -> "hi"
      [] OTHER -> s

\* Array.prototype.slice(0, n)
SliceFront(s, n) == SubSeq(s, 1, IF Len(s) < n THEN Len(s) ELSE n)

\* addMoodEntry that appends the new record instead of prepending it
MoodLogAfter_keepOldest(prev, item) == SliceFront(prev \o <<item>>, MoodCap)

MoodLogAfter(prev, item) == SliceFront(<<item>> \o prev, MoodCap)

Moods == 1..5
NoteTexts == {"", " ", " ok "}

\* the slider's onChange
SetMood(m) ==
    /\ edits < MaxEdits
    /\ m # mood
    /\ mood' = m
    /\ edits' = edits + 1
    /\ UNCHANGED <<moodNotes, moodHistory, clock, appVars, assistantVars, adapterVars>>

\* the notes field's onChange
SetMoodNotes(t) ==
    /\ edits < MaxEdits
    /\ t # moodNotes
    /\ moodNotes' = t
    /\ edits' = edits + 1
    /\ UNCHANGED <<mood, moodHistory, clock, appVars, assistantVars, adapterVars>>

\* the Save mood button; toIsoNow() is the tick of the click
addMoodEntry ==
    /\ clock < MaxMoods
    /\ LET item == [date |-> clock + 1, mood |-> mood, notes |-> Trim(moodNotes)]
       IN  moodHistory' = MoodLogAfter(moodHistory, item)
    /\ moodNotes' = ""
    /\ clock' = clock + 1
    /\ UNCHANGED <<mood, edits, appVars, assistantVars, adapterVars>>

InitMood ==
    /\ ENDPOINTS = AllSet
    /\ AppInit(MaxOps) /\ MoodInit /\ AssistantInit /\ AdapterIdle

NextMood ==
    \/ \E m \in Moods : SetMood(m)
    \/ \E t \in NoteTexts : SetMoodNotes(t)
    \/ addMoodEntry

SpecMood == InitMood /\ [][NextMood]_vars

----------------------------------------------------------------------------
(* The Mock Assistant's transcript *)

InputTexts == {"", " hi ", "why"}

moodLabel(m) == IF m <= 2 THEN "low" ELSE IF m = 3 THEN "neutral" ELSE "good"

\* the reply, by its parts: the bucket of the prompts, the entry and the message it quotes
buildMockReply(m, userText, lastEntryText) ==
    moodLabel(m) \o "|" \o lastEntryText \o "|" \o userText

\* the message field's onChange
SetAssistantInput(t) ==
    /\ t # assistantInput
    /\ assistantInput' = t
    /\ UNCHANGED <<assistantMessages, timers, sends, appVars, moodVars, adapterVars>>

\* the Send button: the user message now, the reply in a timer
handleAssistantSend ==
    /\ sends < MaxSends
    /\ LET t == Trim(assistantInput)
           lastEntryText == IF Len(entries) > 0 THEN entries[1] ELSE ""
       IN  IF t = "" THEN UNCHANGED <<assistantMessages, assistantInput, timers, sends>>
           ELSE /\ assistantMessages' =
                      Append(assistantMessages, [role |-> "user", text |-> t, n |-> sends + 1])
                /\ assistantInput' = ""
                /\ timers' = Append(timers, [n |-> sends + 1, mood |-> mood, userText |-> t,
                                             lastEntryText |-> lastEntryText])
                /\ sends' = sends + 1
    /\ UNCHANGED <<appVars, moodVars, adapterVars>>

\* a timer queue that runs the newest timer first
NextTimer_last(ts) == Len(ts)

\* timers of one delay run in the order they were set
NextTimer(ts) == 1

\* a timer set by Send runs
TimerFire ==
    /\ timers # <<>>
    /\ LET i == NextTimer(timers)
           tm == timers[i]
           reply == buildMockReply(tm.mood, tm.userText, tm.lastEntryText)
       IN  /\ assistantMessages' =
                 Append(assistantMessages, [role |-> "assistant", text |-> reply, n |-> tm.n])
           /\ timers' = SubSeq(timers, 1, i - 1) \o SubSeq(timers, i + 1, Len(timers))
    /\ UNCHANGED <<assistantInput, sends, appVars, moodVars, adapterVars>>

\* the Clear button
ClearTranscript ==
    /\ assistantMessages # <<Greeting>>
    /\ assistantMessages' = <<Greeting>>
    /\ UNCHANGED <<assistantInput, timers, sends, appVars, moodVars, adapterVars>>

InitAssistant ==
    /\ ENDPOINTS = AllSet
    /\ AppInit(MaxOps) /\ MoodInit /\ AssistantInit /\ AdapterIdle

NextAssistant ==
    \/ \E t \in InputTexts : SetAssistantInput(t)
    \/ handleAssistantSend
    \/ TimerFire
    \/ ClearTranscript

SpecAssistant == InitAssistant /\ [][NextAssistant]_vars

----------------------------------------------------------------------------
(* Entry Orchestration: upload, create, list, update, delete *)

UserIds == {"", "u12345"}
Texts == {"", " hi "}
Files == {"f1", "f2"}

\* file?.name || "" and file?.type || "" of the files the model selects
\* ("null": no file selected)
FileName(f) == CASE f = "f1" -> "a.png" [] f = "f2" -> "b.bin" [] OTHER -> ""
FileType(f) == CASE f = "f1" -> "image/png" [] OTHER -> ""

EnvName(key) ==
    CASE key = "upload" -> "REACT_APP_UPLOAD_URL"
      [] key = "create" -> "REACT_APP_CREATE_URL"
      [] key = "get" -> "REACT_APP_GET_URL"
      [] key = "update" -> "REACT_APP_UPDATE_URL"
      [] key = "del" -> "REACT_APP_DELETE_URL"

\* requireEndpoint returns (TRUE) or throws MissingUrl (FALSE)
requireEndpoint(key) == ENDPOINTS[key]
MissingUrl(key) == "Missing " \o EnvName(key) \o " URL in .env"

\* x || "" on a string or undefined
OrEmpty(v) == IF Truthy(v) THEN v.s ELSE ""

\* the optional media fields of the create payload
MediaFields(url, f) ==
    IF url # ""
    THEN [filename |-> FileName(f), filetype |-> FileType(f), fileUrl |-> url]
    ELSE <<>>

\* a handler run suspended at an await: what it awaits ("read": the file read,
\* "fetch": its own request, "list": the list request of handleLoadEntries), the
\* state cells of its closure that the rest of the run reads, the media fields of
\* the create request it sent, the entry of its update or delete request, the
\* issue number of its list request, and readyUpload as it was at the click
Run(id, op, stage, uid, f, url, entryId, upl) ==
    [id |-> id, op |-> op, stage |-> stage, userId |-> uid, file |-> f, url |-> url,
     media |-> IF op = "create" THEN MediaFields(url, f) ELSE <<>>,
     entryId |-> entryId, lseq |-> 0, upl |-> upl]

\* a catch block that leaves the in-progress status
OnError_keepsStatus(message) ==
    /\ error' = message
    /\ status' = status

\* the catch block of every handler
OnError(message) ==
    /\ error' = message
    /\ status' = ""

\* Array.isArray(data) ? data : data?.entries || data?.value || []
Normalize(data) ==
    IF data.t = "arr" THEN data.items
    ELSE IF Truthy(Get(data, "entries")) THEN Get(data, "entries").items
    ELSE IF Truthy(Get(data, "value")) THEN Get(data, "value").items
    ELSE <<>>

\* a list handler that keeps the old entries when the response has none
setEntries_keepWhenEmpty(prev, list) == IF list = <<>> THEN prev ELSE list

\* setEntries(list)
setEntries(prev, list) == list

\* the responses of the services
UploadBody(f) == IF f = "f1" THEN BodyUpload1 ELSE BodyUpload2
UploadResponses(f) ==
    {Response(200, UploadBody(f)), Response(200, BodyUploadNoUrl), Response(200, BodyEmpty),
     Response(500, BodyMsg)}
WriteResponses == {Response(200, BodyObj), Rejected}
ListResponses ==
    {Response(200, b) : b \in {BodyArr1, BodyArrNoId, BodyEntries1, BodyValue1, BodyHtml}}
    \cup {Response(404, BodyEmpty)}

formVars == <<text, file, uploadedFileUrl, uploadedBlobName, readyUpload>>
listVars == <<entries, newestList, arrivedList>>
fixedVars == <<ENDPOINTS, budget>>
otherVars == <<moodVars, assistantVars, adapterVars>>

\* handleLoadEntries reading the live user identifier field
RelistUser_live(h) == userId

\* the userId handleLoadEntries reads: the one of the render whose handler is running
RelistUser(h) == h.userId

\* handleLoadEntries up to its await, run by the Load button or by a write that
\* succeeded in this step (`after`); h carries the closure
handleLoadEntries(h, after) ==
    LET rest == inflight \ {h}
    IN  IF RelistUser(h) = ""
        THEN /\ OnError("userId is required")
             /\ loadingEntries' = FALSE
             /\ inflight' = rest
             /\ listSeq' = listSeq
             /\ lastStep' = Step("list", "fail", "validation", FALSE, after, h.userId)
        ELSE IF ~requireEndpoint("get")
        THEN /\ OnError(MissingUrl("get"))
             /\ loadingEntries' = FALSE
             /\ inflight' = rest
             /\ listSeq' = listSeq
             /\ lastStep' = Step("list", "fail", "config", FALSE, after, h.userId)
        ELSE /\ error' = ""
             /\ status' = "Loading entries..."
             /\ loadingEntries' = TRUE
             /\ inflight' = rest \cup {[h EXCEPT !.stage = "list", !.lseq = listSeq + 1,
                                                  !.userId = RelistUser(h)]}
             /\ listSeq' = listSeq + 1
             /\ lastStep' = Step("list", "start", "none", TRUE, after, h.userId)

\* ---- the fields of the page

SetUserId(u) ==
    /\ u # userId
    /\ userId' = u
    /\ UNCHANGED <<formVars, listVars, fixedVars, otherVars, loadingEntries, editingId,
                   status, error, inflight, nextSeq, listSeq, relisted, lastStep>>

SetText(t) ==
    /\ t # text
    /\ text' = t
    /\ UNCHANGED <<file, uploadedFileUrl, uploadedBlobName, readyUpload, userId,
                   listVars, fixedVars, otherVars, loadingEntries, editingId,
                   status, error, inflight, nextSeq, listSeq, relisted, lastStep>>

\* the file input's onChange: a file, or none
SetFile(f) ==
    /\ f # file
    /\ file' = f
    /\ UNCHANGED <<text, uploadedFileUrl, uploadedBlobName, readyUpload, userId,
                   listVars, fixedVars, otherVars, loadingEntries, editingId,
                   status, error, inflight, nextSeq, listSeq, relisted, lastStep>>

startEdit(i) ==
    /\ i \in 1..Len(entries)
    /\ editingId # entries[i]
    /\ editingId' = entries[i]
    /\ UNCHANGED <<formVars, listVars, fixedVars, otherVars, userId, loadingEntries,
                   status, error, inflight, nextSeq, listSeq, relisted, lastStep>>

\* ---- upload

\* the Upload button, to the await of the file read
handleUpload ==
    /\ nextSeq < budget /\ Cardinality(inflight) < MaxPending
    /\ userId # "" /\ file # "null"
    /\ nextSeq' = nextSeq + 1
    /\ error' = ""
    /\ status' = "Uploading file to Blob via Logic App..."
    /\ inflight' = inflight \cup
           {Run(nextSeq + 1, "upload", "read", userId, file, "", "null", "")}
    /\ lastStep' = Step("upload", "start", "none", TRUE, "none", userId)
    /\ UNCHANGED <<formVars, listVars, fixedVars, otherVars, userId, loadingEntries,
                   editingId, listSeq, relisted>>

\* the file read settles: on success the payload, requireEndpoint and the fetch
UploadRead(h, readOk) ==
    /\ h \in inflight /\ h.op = "upload" /\ h.stage = "read"
    /\ IF ~readOk
       THEN /\ OnError("Failed to read file")
            /\ inflight' = inflight \ {h}
            /\ lastStep' = Step("upload", "fail", "read", TRUE, "none", h.userId)
       ELSE IF ~requireEndpoint("upload")
       THEN /\ OnError(MissingUrl("upload"))
            /\ inflight' = inflight \ {h}
            /\ lastStep' = Step("upload", "fail", "config", TRUE, "none", h.userId)
       ELSE /\ UNCHANGED <<status, error>>
            /\ inflight' = (inflight \ {h}) \cup {[h EXCEPT !.stage = "fetch"]}
            /\ lastStep' = Step("upload", "start", "none", TRUE, "none", h.userId)
    /\ UNCHANGED <<formVars, listVars, fixedVars, otherVars, userId, loadingEntries,
                   editingId, nextSeq, listSeq, relisted>>

\* the upload request settles
UploadResponse(h, r) ==
    /\ h \in inflight /\ h.op = "upload" /\ h.stage = "fetch"
    /\ inflight' = inflight \ {h}
    /\ LET o == apiFetchAbsolute(r)
       IN  IF o.thrown
           THEN /\ OnError(o.message)
                /\ lastStep' = Step("upload", "fail", "transport", TRUE, "none", h.userId)
                /\ UNCHANGED <<uploadedFileUrl, uploadedBlobName, readyUpload>>
           ELSE IF o.data.t = "null"
           THEN /\ OnError("Cannot read properties of null (reading 'blobName')")
                /\ lastStep' = Step("upload", "fail", "type", TRUE, "none", h.userId)
                /\ UNCHANGED <<uploadedFileUrl, uploadedBlobName, readyUpload>>
           ELSE /\ uploadedBlobName' = OrEmpty(Get(o.data, "blobName"))
                /\ uploadedFileUrl' = OrEmpty(Get(o.data, "fileUrl"))
                /\ status' = "Upload complete"
                /\ error' = error
                /\ readyUpload' = OrEmpty(Get(o.data, "fileUrl"))
                /\ lastStep' = Step("upload", "ok", "none", TRUE, "none", h.userId)
    /\ UNCHANGED <<text, file, listVars, fixedVars, otherVars, userId, loadingEntries,
                   editingId, nextSeq, listSeq, relisted>>

\* ---- create

\* the Create button, to the await of the create request
handleCreateEntry ==
    /\ nextSeq < budget /\ Cardinality(inflight) < MaxPending
    /\ userId # "" /\ Trim(text) # ""
    /\ nextSeq' = nextSeq + 1
    /\ LET invalid == IF userId = "" THEN "userId is required"
                      ELSE IF Trim(text) = "" THEN "Journal text is required"
                      ELSE ""
       IN  IF invalid # ""
           THEN /\ OnError(invalid)
                /\ inflight' = inflight
                /\ lastStep' = Step("create", "fail", "validation", FALSE, "none", userId)
           ELSE IF ~requireEndpoint("create")
           THEN /\ OnError(MissingUrl("create"))
                /\ inflight' = inflight
                /\ lastStep' = Step("create", "fail", "config", FALSE, "none", userId)
           ELSE /\ error' = ""
                /\ status' = "Creating journal entry in Cosmos DB..."
                /\ inflight' = inflight \cup
                       {Run(nextSeq + 1, "create", "fetch", userId, file, uploadedFileUrl,
                            "null", readyUpload)}
                /\ lastStep' = Step("create", "start", "none", TRUE, "none", userId)
    /\ UNCHANGED <<formVars, listVars, fixedVars, otherVars, userId, loadingEntries,
                   editingId, listSeq, relisted>>

\* the create request settles; on success the form is cleared and the re-list runs
CreateResponse(h, r) ==
    /\ h \in inflight /\ h.op = "create" /\ h.stage = "fetch"
    /\ LET o == apiFetchAbsolute(r)
       IN  IF o.thrown
           THEN /\ OnError(o.message)
                /\ inflight' = inflight \ {h}
                /\ lastStep' = Step("create", "fail", "transport", TRUE, "none", h.userId)
                /\ UNCHANGED <<formVars, loadingEntries, listSeq, relisted>>
           ELSE /\ text' = ""
                /\ IF h.url # ""
                   THEN /\ file' = "null"
                        /\ uploadedFileUrl' = ""
                        /\ uploadedBlobName' = ""
                        /\ readyUpload' = IF readyUpload = h.url THEN "" ELSE readyUpload
                   ELSE UNCHANGED <<file, uploadedFileUrl, uploadedBlobName, readyUpload>>
                /\ relisted' = TRUE
                /\ handleLoadEntries(h, "create")
    /\ UNCHANGED <<listVars, fixedVars, otherVars, userId, editingId, nextSeq>>

\* ---- list

\* a Load entries button that is not disabled while loading
LoadEnabled_noBusy == userId # ""

\* the Load entries button is enabled
LoadEnabled == userId # "" /\ ~loadingEntries

\* the Load entries button
ClickLoad ==
    /\ nextSeq < budget /\ Cardinality(inflight) < MaxPending
    /\ LoadEnabled
    /\ nextSeq' = nextSeq + 1
    /\ handleLoadEntries(Run(nextSeq + 1, "list", "list", userId, "null", "", "null", ""),
                         "none")
    /\ UNCHANGED <<formVars, listVars, fixedVars, otherVars, userId, editingId, relisted>>

\* a list request settles, for the Load button or for a write's re-list
ListResponse(h, r) ==
    /\ h \in inflight /\ h.stage = "list"
    /\ inflight' = inflight \ {h}
    /\ loadingEntries' = FALSE
    /\ LET o == apiFetchAbsolute(r)
       IN  IF o.thrown
           THEN /\ OnError(o.message)
                /\ lastStep' = Step("list", "fail", "transport", TRUE, "none", h.userId)
                /\ UNCHANGED listVars
           ELSE /\ entries' = setEntries(entries, Normalize(o.data))
                /\ status' = "Entries loaded"
                /\ error' = error
                /\ arrivedList' = [k |-> h.lseq, body |-> r.text]
                /\ newestList' = IF h.lseq > newestList.k
                                 THEN [k |-> h.lseq, list |-> Normalize(o.data)]
                                 ELSE newestList
                /\ lastStep' = Step("list", "ok", "none", TRUE, "none", h.userId)
    /\ UNCHANGED <<formVars, fixedVars, otherVars, userId, editingId, nextSeq, listSeq,
                   relisted>>

\* ---- update and delete

\* handleUpdate and handleDelete from the click to the await of the request
StartWrite(op, key, entryId, busy) ==
    /\ nextSeq < budget /\ Cardinality(inflight) < MaxPending
    /\ nextSeq' = nextSeq + 1
    /\ IF entryId = "undefined"
       THEN /\ OnError("Missing entryId")
            /\ inflight' = inflight
            /\ lastStep' = Step(op, "fail", "validation", FALSE, "none", userId)
       ELSE IF ~requireEndpoint(key)
       THEN /\ OnError(MissingUrl(key))
            /\ inflight' = inflight
            /\ lastStep' = Step(op, "fail", "config", FALSE, "none", userId)
       ELSE /\ error' = ""
            /\ status' = busy
            /\ inflight' = inflight \cup
                   {Run(nextSeq + 1, op, "fetch", userId, "null", "", entryId, "")}
            /\ lastStep' = Step(op, "start", "none", TRUE, "none", userId)
    /\ UNCHANGED <<formVars, listVars, fixedVars, otherVars, userId, loadingEntries,
                   editingId, listSeq, relisted>>

\* the Save button of the entry in edit mode
handleUpdate(i) ==
    /\ i \in 1..Len(entries)
    /\ editingId = entries[i]
    /\ StartWrite("update", "update", entries[i], "Updating entry...")

\* the Delete button of an entry
handleDelete(i) ==
    /\ i \in 1..Len(entries)
    /\ StartWrite("delete", "del", entries[i], "Deleting entry...")

\* the update or delete request settles; on success the re-list runs
WriteResponse(h, r) ==
    /\ h \in inflight /\ h.op \in {"update", "delete"} /\ h.stage = "fetch"
    /\ LET o == apiFetchAbsolute(r)
       IN  IF o.thrown
           THEN /\ OnError(o.message)
                /\ inflight' = inflight \ {h}
                /\ lastStep' = Step(h.op, "fail", "transport", TRUE, "none", h.userId)
                /\ UNCHANGED <<editingId, loadingEntries, listSeq, relisted>>
           ELSE /\ editingId' = IF h.op = "update" THEN "null" ELSE editingId
                /\ relisted' = TRUE
                /\ handleLoadEntries(h, h.op)
    /\ UNCHANGED <<formVars, listVars, fixedVars, otherVars, userId, nextSeq>>

\* ---- the page

\* the builds: every endpoint configured, the get endpoint missing, only the get
\* endpoint configured
Configs == {AllSet, [AllSet EXCEPT !.get = FALSE],
            [k \in DOMAIN AllSet |-> k = "get"]}

Init ==
    /\ ENDPOINTS \in Configs
    /\ AppInit(MaxOps) /\ MoodInit /\ AssistantInit /\ AdapterIdle

Next ==
    \/ \E u \in UserIds : SetUserId(u)
    \/ \E t \in Texts : SetText(t)
    \/ \E f \in {"f1", "null"} : SetFile(f)
    \/ \E i \in 1..Len(entries) : startEdit(i)
    \/ handleUpload
    \/ \E h \in inflight, readOk \in BOOLEAN : UploadRead(h, readOk)
    \/ \E h \in inflight : \E r \in UploadResponses(h.file) : UploadResponse(h, r)
    \/ handleCreateEntry
    \/ \E h \in inflight, r \in WriteResponses : CreateResponse(h, r)
    \/ ClickLoad
    \/ \E h \in inflight, r \in ListResponses : ListResponse(h, r)
    \/ \E i \in 1..Len(entries) : handleUpdate(i)
    \/ \E i \in 1..Len(entries) : handleDelete(i)
    \/ \E h \in inflight, r \in WriteResponses : WriteResponse(h, r)

Spec == Init /\ [][Next]_vars

\* the create form alone: the user identifier stays, every endpoint is configured
InitForm ==
    /\ ENDPOINTS = AllSet
    /\ AppInit(MaxFormOps) /\ MoodInit /\ AssistantInit /\ AdapterIdle

FormUploadResponses(f) ==
    {Response(200, UploadBody(f)), Response(200, BodyUploadNoUrl), Response(500, BodyMsg)}
FormListResponses == {Response(200, BodyArr1)}

NextForm ==
    \/ \E t \in Texts : SetText(t)
    \/ \E f \in Files \cup {"null"} : SetFile(f)
    \/ handleUpload
    \/ \E h \in inflight, readOk \in BOOLEAN : UploadRead(h, readOk)
    \/ \E h \in inflight : \E r \in FormUploadResponses(h.file) : UploadResponse(h, r)
    \/ handleCreateEntry
    \/ \E h \in inflight, r \in WriteResponses : CreateResponse(h, r)
    \/ \E h \in inflight, r \in FormListResponses : ListResponse(h, r)

SpecForm == InitForm /\ [][NextForm]_vars

----------------------------------------------------------------------------
(* The claims *)

MediaKeys == {"filename", "filetype", "fileUrl"}
Writes == {"create", "update", "delete"}

\* C1: every create request carries all three media fields when the latest
\* completed upload gave a fileUrl that no successful create has carried yet, and
\* none of them otherwise.
C1_MediaIffUploadCompleted ==
    \A h \in inflight :
        h.op = "create" =>
            DOMAIN h.media = (IF h.upl # "" THEN MediaKeys ELSE {})

\* C2: the mood log holds the min(n, 14) most recent of the n records saved,
\* newest first, and never more than 14.
C2_MoodLogKeepsNewest ==
    /\ Len(moodHistory) <= MoodCap
    /\ Len(moodHistory) = (IF clock < MoodCap THEN clock ELSE MoodCap)
    /\ \A i \in 1..Len(moodHistory) : moodHistory[i].date = clock - i + 1

\* C2 witness: fifteen records saved, fourteen kept, the first one evicted
C2_FifteenSaved ==
    /\ clock = MoodCap + 1
    /\ Len(moodHistory) = MoodCap
    /\ moodHistory[1].date = MoodCap + 1
    /\ moodHistory[MoodCap].date = 2

ListSentNow ==
    /\ lastStep.op = "list" /\ lastStep.kind = "start"
    /\ \E h \in inflight : h.stage = "list" /\ h.lseq = listSeq

\* what the three response shapes and the unmatched one normalize to
ExpectedList(body) ==
    CASE body \in {BodyArr1, BodyEntries1, BodyValue1} -> <<"e1">>
      [] body = BodyArrNoId -> <<"undefined">>
      [] body = BodyArr2 -> <<"e2", "e1">>
      [] OTHER -> <<>>

\* C3 as stated: with the get endpoint configured, the step that receives the
\* success of a create, update or delete sends a list request, whatever the user
\* identifier field holds.
C3_RelistAlwaysSent ==
    (lastStep.after \in Writes /\ ENDPOINTS.get) => ListSentNow

\* what the step that ends a re-list attempt leaves behind
RelistDone ==
    /\ (lastStep.after \in Writes /\ lastStep.userId # "" /\ ENDPOINTS.get) =>
           /\ ListSentNow
           /\ \E h \in inflight : h.lseq = listSeq /\ h.userId = lastStep.userId
    /\ (lastStep.after \in Writes /\ (lastStep.userId = "" \/ ~ENDPOINTS.get)) =>
           /\ lastStep.op = "list" /\ lastStep.kind = "fail"
           /\ error \in {"userId is required", MissingUrl("get")}
    /\ (lastStep.op = "list" /\ lastStep.kind = "ok") =>
           entries = ExpectedList(arrivedList.body)

\* a step that sends no list request
NoListSent ==
    /\ listSeq' = listSeq
    /\ {h \in inflight' : h.stage = "list"} \subseteq inflight

\* C3 amended: the step that receives the success of a write sends a list request
\* for the user identifier of the write's closure when that identifier is not
\* empty and the get endpoint is configured, and otherwise sends none and shows
\* an error; a list request that succeeds replaces the entries by its normalized
\* response.
C3_RelistSentForClosureUser ==
    /\ []RelistDone
    /\ [][(lastStep'.after \in Writes /\ (lastStep'.userId = "" \/ ~ENDPOINTS.get))
              => NoListSent]_vars

\* C3 witness: a delete succeeded after the user identifier field was emptied,
\* and its re-list went out for the identifier of the closure
C3_RelistAfterFieldEmptied ==
    /\ lastStep.after = "delete" /\ ListSentNow
    /\ userId = "" /\ lastStep.userId = "u12345"

\* C4 as stated: a response that is not ok makes the call throw, and an ok
\* response whose body JSON.parse rejects makes it return the raw text.
C4_RawTextWheneverUnparseable ==
    outcome.called /\ ~res.rejected =>
        /\ ~ResOk(res) => outcome.r.thrown
        /\ (ResOk(res) /\ res.text \in Unparseable) =>
               /\ ~outcome.r.thrown
               /\ outcome.r.data = Str(res.text)

\* C4 amended: a response that is not ok makes the call throw; an ok response
\* whose body is not empty and is rejected by JSON.parse makes it return the raw
\* text; an ok response with an empty body makes it return null.
C4_RawTextUnlessEmpty ==
    outcome.called /\ ~res.rejected =>
        /\ ~ResOk(res) => outcome.r.thrown
        /\ (ResOk(res) /\ res.text \in Unparseable /\ res.text # "") =>
               /\ ~outcome.r.thrown
               /\ outcome.r.data = Str(res.text)
        /\ (ResOk(res) /\ res.text = "") =>
               /\ ~outcome.r.thrown
               /\ outcome.r.data = Null

\* C4 witness: an ok response with an HTML body came back as that text
C4_HtmlReturned ==
    /\ outcome.called /\ ~res.rejected /\ ResOk(res) /\ res.text = BodyHtml
    /\ ~outcome.r.thrown /\ outcome.r.data = Str(BodyHtml)

\* C5: a handler that fails for a missing endpoint URL has started no I/O, neither
\* a request nor a file read.
C5_ConfigErrorBeforeIO ==
    (lastStep.kind = "fail" /\ lastStep.class = "config") => ~lastStep.io

UserAt(i) == assistantMessages[i].role = "user"
ReplyAt(j) == assistantMessages[j].role = "assistant" /\ assistantMessages[j].n > 0
Positions == 1..Len(assistantMessages)

\* C6 as stated: a reply comes after its user message, with no other user message
\* between the two.
C6_ReplyNextToItsMessage ==
    \A i, j \in Positions :
        (UserAt(i) /\ ReplyAt(j) /\ assistantMessages[i].n = assistantMessages[j].n) =>
            /\ i < j
            /\ \A k \in (i + 1)..(j - 1) : ~UserAt(k)

\* C6 amended: a reply comes after its user message when the transcript still
\* holds it, user messages and replies each stand in the order of their Send
\* clicks, and no message has two replies.
C6_RepliesInSendOrder ==
    \A i, j \in Positions :
        /\ (UserAt(i) /\ ReplyAt(j) /\ assistantMessages[i].n = assistantMessages[j].n)
               => i < j
        /\ (i < j /\ UserAt(i) /\ UserAt(j))
               => assistantMessages[i].n < assistantMessages[j].n
        /\ (i < j /\ ReplyAt(i) /\ ReplyAt(j))
               => assistantMessages[i].n < assistantMessages[j].n

\* C6 witness: a second user message stands between a user message and its reply
C6_MessageBetween ==
    \E i \in Positions :
        /\ i + 2 \in Positions
        /\ UserAt(i) /\ UserAt(i + 1) /\ ReplyAt(i + 2)
        /\ assistantMessages[i + 2].n = assistantMessages[i].n

\* the request a suspended run has on the network: the endpoint, and the entry
\* of the button that sent it
OnNetwork(h) ==
    IF h.stage = "list" THEN <<"list", "null">>
    ELSE IF h.stage = "fetch" THEN <<h.op, h.entryId>>
    ELSE <<"none", "null">>

ListsInFlight == {h \in inflight : h.stage = "list"}

\* C7 as stated: no two requests of one operation, sent from the same button, are
\* in flight at the same time.
C7_NoSelfOverlap ==
    \A h1, h2 \in inflight :
        (h1 # h2 /\ OnNetwork(h1)[1] # "none") => OnNetwork(h1) # OnNetwork(h2)

\* C7 amended: only the Load entries button is guarded, and only until a write
\* reaches its re-list: until then loadingEntries is true exactly while a list
\* request is in flight, and at most one is.
C7_LoadGuardedUntilRelist ==
    ~relisted =>
        /\ Cardinality(ListsInFlight) <= 1
        /\ loadingEntries <=> ListsInFlight # {}

\* C7 witness: a list request in flight, the Load button disabled by it alone
C7_LoadDisabledWhileLoading ==
    /\ ~relisted /\ ListsInFlight # {} /\ loadingEntries
    /\ userId # "" /\ nextSeq < budget /\ Cardinality(inflight) < MaxPending

HasMessage(t) == t \notin Unparseable /\ Truthy(Get(JSONparse(t), "message"))

\* C8 as stated: a response whose body has a non-empty message field makes the
\* call throw, whatever its status.
C8_MessageFieldFails ==
    (outcome.called /\ ~res.rejected /\ HasMessage(res.text)) => outcome.r.thrown

\* C8 amended: the call throws exactly when fetch rejects or the status is not a
\* success status; the message field of the body is the message of that error,
\* and with a success status the body is returned, message field and all.
C8_OnlyStatusFails ==
    outcome.called =>
        /\ outcome.r.thrown <=> (res.rejected \/ ~ResOk(res))
        /\ (~res.rejected /\ HasMessage(res.text)) =>
               IF ResOk(res) THEN outcome.r.data = JSONparse(res.text)
               ELSE outcome.r.message = "boom"

\* C8 witness: a 200 response with a message field was returned, not thrown
C8_MessageReturned ==
    /\ outcome.called /\ res = Response(200, BodyMsg)
    /\ ~outcome.r.thrown /\ outcome.r.data = Obj([message |-> Str("boom")])

\* a handler step that ended in a catch block
FailStep ==
    /\ lastStep'.kind = "fail"
    /\ nextSeq' # nextSeq \/ inflight' # inflight

\* what a failing step leaves: the entries as they were; after a write that
\* succeeded in the same step the write's changes; otherwise the form as it was
NotRestored ==
    /\ entries' = entries
    /\ lastStep'.after = "create" =>
           /\ text' = ""
           /\ \A h \in inflight \ inflight' :
                  h.url # "" => file' = "null" /\ uploadedFileUrl' = ""
    /\ lastStep'.after = "update" => editingId' = "null"
    /\ lastStep'.after = "none" =>
           /\ text' = text /\ file' = file /\ editingId' = editingId
           /\ uploadedFileUrl' = uploadedFileUrl /\ uploadedBlobName' = uploadedBlobName

\* C9: a failure in upload, create, list, update or delete ends in the handler's
\* catch block, which leaves a non-empty error and an empty status, and restores
\* nothing changed before the failure.
C9_FailuresCaught ==
    /\ [](lastStep.kind = "fail" => error # "" /\ status = "")
    /\ [][FailStep => NotRestored]_vars

\* C9 witness: a create succeeded and cleared the text, its re-list failed
C9_RelistFailedAfterCreate ==
    /\ lastStep.op = "list" /\ lastStep.kind = "fail" /\ lastStep.after = "create"
    /\ text = "" /\ error = MissingUrl("get") /\ status = ""

\* C10 as stated: with no request in flight the entries are the normalized
\* response of the latest-issued list request among those that succeeded.
C10_LatestIssuedListWins ==
    (inflight = {} /\ newestList.k > 0) => entries = newestList.list

\* C10 amended: the entries are always the normalized response of the list
\* request whose success arrived last, whichever was issued first.
C10_LastArrivedListShown ==
    IF arrivedList.k = 0 THEN entries = <<>>
    ELSE entries = ExpectedList(arrivedList.body)

\* C10 witness: the response of an earlier list request arrived after that of a
\* later one and replaced it
C10_EarlierReplacedLater ==
    /\ inflight = {}
    /\ arrivedList.k < newestList.k
    /\ entries # newestList.list

\* the file whose upload request the upload service answers with this fileUrl
UploadedFile(url) == CHOOSE f \in Files : Get(JSONparse(UploadBody(f)), "fileUrl") = Str(url)

\* C11: in every create request that carries media fields, filename and filetype
\* are the name and type of the file whose upload produced the fileUrl sent with
\* them.
C11_MediaDescribesUploadedFile ==
    \A h \in inflight :
        (h.op = "create" /\ h.media # <<>>) =>
            /\ h.media.filename = FileName(UploadedFile(h.media.fileUrl))
            /\ h.media.filetype = FileType(UploadedFile(h.media.fileUrl))

====
